---- MODULE Spec2Model ----
(***************************************************************************)
(* PerfRecord (src/src/perfrecord.cpp): the supervisor of the "perf        *)
(* record" subprocess.  The model holds the three members of PerfRecord,   *)
(* the QProcess objects it has created (each with the state QProcess       *)
(* reports and the signals it still owes), and the notifications each      *)
(* operation emits.  Every public method and every connected lambda is one *)
(* action; the file system, the search path and the subprocess are the     *)
(* environment and supply the inputs of the actions.  What the caller      *)
(* passes on the command line and what the desktop session holds is fixed  *)
(* per run in config.  Spec follows one run through every operation and    *)
(* event; CallSpec takes every run through the calls and the normal exits. *)
(***************************************************************************)
EXTENDS Integers, Sequences, FiniteSets, TLC

\* ------------------------------------------------------------------ bounds
\* number of QProcess objects startRecording may create in one behaviour
MaxStarts == 2
\* number of distinct output paths the caller passes
MaxPaths == 2

\* ------------------------------------------------------- program constants
\* <cstdlib> EXIT_SUCCESS, used on line 106
EXIT_SUCCESS == 0
\* <csignal> SIGTERM, used on line 106
SIGTERM == 15
\* <csignal> SIGKILL, the signal QProcess::kill() sends (line 79)
SIGKILL == 9
Handles == 1..MaxStarts
Paths == 1..MaxPaths
\* exit codes of a subprocess that returned from main / called exit
ExitCodes == {EXIT_SUCCESS, EXIT_SUCCESS + 1, SIGTERM}
\* signals that end a subprocess nobody called kill() on
CrashSignals == {SIGTERM, SIGKILL}

VARIABLES
    config,              \* what the caller passes and the desktop session holds, fixed per run
    m_perfRecordProcess, \* 0 = nullptr, else the handle of the current QProcess
    m_outputPath,        \* 0 = empty QString, else a path
    m_userTerminated,    \* bool
    procState,           \* per handle: state of the QProcess object
    killed,              \* handles whose subprocess got kill(), the QProcess awaiting deletion
    termRequested,       \* existing handles on which terminate() was called while active
    written,             \* 0, or the handle whose write() buffered input not yet flushed
    inDeath,             \* [h, code]: errorOccurred(Crashed) of h was emitted, its finished(code) follows
    notified,            \* existing handles on whose events a terminal notification was emitted
    arguments,           \* m_perfRecordProcess->arguments(), what start() was given
    spawnPath,           \* per existing handle: the outputPath of the call that started it, or 0
    faulted,             \* "" while the program runs, else the fault that ended it
    emitted,             \* notifications emitted by the last operation, in order
    ev                   \* the last operation and the inputs it observed

vars == <<config, m_perfRecordProcess, m_outputPath, m_userTerminated, procState, killed,
          termRequested, written, inDeath, notified, arguments, spawnPath, faulted,
          emitted, ev>>

\* ------------------------------------------------------------ notifications
Note(sig, kind, val) == [sig |-> sig, kind |-> kind, val |-> val, args |-> <<>>]

recordingFailed(kind, val) == Note("recordingFailed", kind, val)

recordingFinished(path) == Note("recordingFinished", "path", path)

\* recordingStarted(binary, arguments), emitted for the QProcess h
recordingStarted(binary, args, h) ==
    [Note("recordingStarted", binary, h) EXCEPT !.args = args]

recordingOutput(h) == Note("recordingOutput", "text", h)

\* a QProcess whose subprocess was forked and has not been seen to end
Active(h) == h # 0 /\ procState[h] \in {"starting", "running"}

IsTerminal(n) == n.sig \in {"recordingFailed", "recordingFinished"}

NoDeath == [h |-> 0, code |-> 0]

\* the record of the last operation: its name, the handle whose event it was (or
\* the handle it created), and the inputs it read from its environment
NoEv == [op |-> "init", h |-> 0, code |-> 0, ut |-> FALSE, file |-> "-",
         readable |-> FALSE, target |-> "-", folder |-> "-",
         wasReadable |-> FALSE, helperRun |-> FALSE, recordOptions |-> <<>>,
         ret |-> ""]

Ev(op, h) == [NoEv EXCEPT !.op = op, !.h = h, !.ut = m_userTerminated]

\* ------------------------------------------------ environment: file system
\* the output file as QFileInfo sees it when the exit is classified
FileStates == {"missing", "empty", "data"}

FileExists(file) == file # "missing"

\* QFileInfo::size() is 0 for a file that does not exist
FileSize(file) == IF file = "data" THEN 1 ELSE 0

\* the folder of the output path (lines 85-87)
FolderStates == {"missing", "file", "readonlyFile", "readonlyDir", "dir"}

FolderExists(f) == f # "missing"

FolderIsDir(f) == f \in {"readonlyDir", "dir"}

FolderIsWritable(f) == f \in {"file", "dir"}

\* exePath: what it names taken literally (line 198), and for a name that is
\* no file whether the search path holds an executable of that name (line 201)
ExeStates == {"missing", "onSearchPath", "dir", "lockedDir", "plainFile", "execFile"}

ExeExists(e) == e \notin {"missing", "onSearchPath"}

FindExecutable(e) == IF e = "onSearchPath" THEN "execFile" ELSE "missing"

ExeIsFile(e) == e \in {"plainFile", "execFile"}

ExeIsExecutable(e) == e \in {"dir", "execFile"}

\* lines 198-202: the literal path, else what QStandardPaths::findExecutable
\* finds on the search path (an executable file, or nothing)
ResolveExe(exePath) ==
    IF ExeExists(exePath) THEN exePath ELSE FindExecutable(exePath)

\* line 217: QFileInfo::absoluteFilePath() of the executable that was found
AbsoluteFilePath(exePath) == "/usr/bin/app"

\* ------------------------------------------------------- helper resolution
\* lines 273-286: the first of kdesu, gksu found on the search path, else empty
sudoUtil(onPath) ==
    IF "kdesu" \in onPath THEN "/usr/bin/kdesu"
    ELSE IF "gksu" \in onPath THEN "/usr/bin/gksu" ELSE ""

\* the helper executables the search path may hold
HelperSets == {{}, {"gksu"}, {"kdesu", "gksu"}}

\* the login names KUser().loginName() may return (lines 288-291)
UserNames == {"", "user"}

\* the window id KWindowSystem::activeWindow() returns, as QString::number
\* prints it (line 69)
WindowIds == {"42"}

\* the option lists and process ids a caller passes
PerfOptionSets == {<<>>, <<"--call-graph", "dwarf">>}

PidLists == {<<"7">>, <<"7", "8">>}

ExeOptionSets == {<<>>, <<"--fast", "x">>}

\* one run's inputs: the arguments of record() that reach the command line, and
\* what sudoUtil(), currentUsername() and activeWindow() find in the session
AllConfigs ==
    [perfOptions : PerfOptionSets, recordAsSudo : BOOLEAN, pids : PidLists,
     exeOptions : ExeOptionSets, onPath : HelperSets, username : UserNames,
     window : WindowIds]

\* the run that Spec follows through every event: an elevated recording in a
\* session that has kdesu; CallSpec takes every run through the calls
FewConfigs ==
    {c \in AllConfigs :
        /\ c.perfOptions = <<"--call-graph", "dwarf">> /\ c.recordAsSudo
        /\ c.pids = <<"7", "8">> /\ c.exeOptions = <<>>
        /\ c.onPath = {"kdesu", "gksu"} /\ c.username = "user"}

\* ------------------------------------------------------ command assembly
\* QStringList::join
RECURSIVE Join(_, _)
Join(list, sep) ==
    IF list = <<>> THEN ""
    ELSE IF Len(list) = 1 THEN list[1]
    ELSE list[1] \o sep \o Join(Tail(list), sep)

\* the output path as the string the command line carries
PathName(path) == IF path = 0 THEN "" ELSE "/out/perf.data." \o ToString(path)

\* line 64: sudoBinary.endsWith("/kdesu"), on the paths sudoUtil returns
EndsWithKdesu(sudoBinary) == sudoBinary = "/usr/bin/kdesu"

\* sudoOptions passing the kdesu flags to every helper
sudoOptions_AlwaysAttach(sudoBinary, window) ==
    <<"-u", "root">> \o <<"-t", "--attach", window>>

\* lines 58-72: the flags of the elevation helper
sudoOptions(sudoBinary, window) ==
    <<"-u", "root">> \o
    (IF EndsWithKdesu(sudoBinary) THEN <<"-t", "--attach", window>> ELSE <<>>)

\* lines 140-165: the argument list of the elevated command
ElevatedOptions(sudoBinary, window, username, outputPath, perfOptions, recordOptions) ==
    sudoOptions(sudoBinary, window)
        \o <<"--", "perf", "record", "-o", PathName(outputPath)>>
        \o perfOptions
        \o <<"--", "runuser", "-u", username, "--">>
        \o recordOptions

\* lines 170-176: the argument list of the plain command
PlainPerfCommand(outputPath, perfOptions, recordOptions) ==
    <<"record", "-o", PathName(outputPath)>> \o perfOptions \o recordOptions

\* lines 223-230: what perfCommand() returns
CommandLine(process, args) ==
    IF process # 0 THEN "perf " \o Join(args, " ") ELSE ""

\* ensureFileReadable returning true after the helper ran, without the re-check
ensureFileReadable_NoRecheck(readable, sudoExe, username, chownWorks) ==
    IF ~readable
    THEN IF sudoExe = "" \/ username = ""
         THEN [result |-> FALSE, helperRun |-> FALSE, readableAfter |-> FALSE]
         ELSE [result |-> TRUE, helperRun |-> TRUE, readableAfter |-> chownWorks]
    ELSE [result |-> TRUE, helperRun |-> FALSE, readableAfter |-> TRUE]

\* ensureFileReadable giving up only when helper and user name are both missing
ensureFileReadable_BothMissing(readable, sudoExe, username, chownWorks) ==
    IF ~readable
    THEN IF sudoExe = "" /\ username = ""
         THEN [result |-> FALSE, helperRun |-> FALSE, readableAfter |-> FALSE]
         ELSE [result |-> chownWorks, helperRun |-> TRUE, readableAfter |-> chownWorks]
    ELSE [result |-> TRUE, helperRun |-> FALSE, readableAfter |-> TRUE]

\* lines 246-271: result is what the method returns, helperRun whether the
\* chown helper was executed, readableAfter the file's readability on return
ensureFileReadable(readable, sudoExe, username, chownWorks) ==
    IF ~readable
    THEN IF sudoExe = "" \/ username = ""
         THEN [result |-> FALSE, helperRun |-> FALSE, readableAfter |-> FALSE]
         ELSE [result |-> chownWorks, helperRun |-> TRUE, readableAfter |-> chownWorks]
    ELSE [result |-> TRUE, helperRun |-> FALSE, readableAfter |-> TRUE]

\* what a call of ensureFileReadable may find: the file's readability, and
\* whether the chown helper succeeds where the method can run it
EnsureCases ==
    {c \in [readable : BOOLEAN, chownWorks : BOOLEAN] :
        /\ c.readable => ~c.chownWorks
        /\ (sudoUtil(config.onPath) = "" \/ config.username = "") => ~c.chownWorks}

\* ------------------------------------------------- the connected handlers
\* the condition of the finished handler without "&& outputFileInfo.exists()"
ExitIsSuccess_NoExists(exitCode, userTerminated, file) ==
    \/ exitCode = EXIT_SUCCESS
    \/ (exitCode = SIGTERM /\ userTerminated)
    \/ FileSize(file) > 0

\* lines 106-107: the condition of the finished handler
ExitIsSuccess(exitCode, userTerminated, file) ==
    /\ \/ exitCode = EXIT_SUCCESS
       \/ (exitCode = SIGTERM /\ userTerminated)
       \/ FileSize(file) > 0
    /\ FileExists(file)

\* lines 105-115: what the finished handler emits
FinishedEmits(exitCode, userTerminated, file, path, ensured) ==
    IF ExitIsSuccess(exitCode, userTerminated, file)
    THEN IF ~ensured THEN <<recordingFailed("unreadable", 0)>>
         ELSE <<recordingFinished(path)>>
    ELSE <<recordingFailed("errorCode", exitCode)>>

\* lines 120-124: what the errorOccurred handler emits; the error string is
\* read from the current m_perfRecordProcess
ErrorEmits(userTerminated, current) ==
    IF ~userTerminated THEN <<recordingFailed("osError", current)>> ELSE <<>>

\* the folder checks with isWritable() tested before isDir()
FolderCheck_WritableFirst(f) ==
    IF ~FolderExists(f) THEN "folderMissing"
    ELSE IF ~FolderIsWritable(f) THEN "folderNotWritable"
    ELSE IF ~FolderIsDir(f) THEN "notFolder"
    ELSE "ok"

\* lines 88-99: the reason the output folder is rejected, or "ok"
FolderCheck(f) ==
    IF ~FolderExists(f) THEN "folderMissing"
    ELSE IF ~FolderIsDir(f) THEN "notFolder"
    ELSE IF ~FolderIsWritable(f) THEN "folderNotWritable"
    ELSE "ok"

\* lines 204-215: the reason the executable is rejected, or "ok"
ExeCheck(e) ==
    IF ~ExeExists(e) THEN "exeMissing"
    ELSE IF ~ExeIsFile(e) THEN "exeNotFile"
    ELSE IF ~ExeIsExecutable(e) THEN "exeNotExecutable"
    ELSE "ok"

\* the QProcess objects created so far are 1..Created
Created == Cardinality({h \in Handles : procState[h] # "none"})

\* no signal emission is in progress: finished() follows errorOccurred(Crashed)
\* within one call of QProcess, so nothing else runs in between
Idle == inDeath = NoDeath /\ faulted = ""

\* startRecording that forgets the previous QProcess without kill()
KillPrevious_None(old) == killed

\* lines 78-81: kill() on the previous QProcess; it signals a subprocess that
\* is starting or running
KillPrevious(old) == IF Active(old) THEN killed \cup {old} ELSE killed

\* line 80: deleteLater() on the previous QProcess; one that is not active
\* emits nothing any more and counts as deleted at once
Replaced(old, ps) == IF old # 0 /\ ~Active(old) THEN [ps EXCEPT ![old] = "deleted"] ELSE ps

\* the bookkeeping of a set of handles when QProcess h ceases to exist
Forget(S, h, gone) == IF gone THEN S \ {h} ELSE S

\* the state of QProcess h once its subprocess has ended: a replaced QProcess is
\* deleted next and emits nothing any more
Ended(h) == IF h \in killed THEN "deleted" ELSE "notRunning"

\* the paths the program holds or a subprocess writes to
PathsInUse == ({m_outputPath} \cup {spawnPath[h] : h \in Handles}) \ {0}

\* the outputPath a caller may pass: a path in use, or a new one; the program
\* treats a path as an opaque name, so the new paths are taken in order
OutputPaths ==
    {p \in Paths : p \in PathsInUse \/ \A q \in Paths \ PathsInUse : p <= q}

\* ----------------------------------------------------------- operations
\* lines 74-181: startRecording; the new QProcess replaces the old one before
\* the folder of outputPath is checked
startRecording(perfOptions, outputPath, recordAsSudo, recordOptions, e) ==
    \E folder \in FolderStates :
        LET h == Created + 1
            why == FolderCheck(folder)
            old == m_perfRecordProcess
            gone == ~Active(old)
            kept == IF old # 0 /\ gone THEN [spawnPath EXCEPT ![old] = 0]
                    ELSE spawnPath
            e1 == [e EXCEPT !.h = h, !.folder = folder, !.recordOptions = recordOptions]
        IN  /\ h \in Handles
            /\ m_perfRecordProcess' = h
            /\ killed' = KillPrevious(old)
            /\ IF why # "ok"
               THEN /\ procState' = [Replaced(old, procState) EXCEPT ![h] = "unstarted"]
                    /\ emitted' = <<recordingFailed(why, 0)>>
                    /\ arguments' = <<>>
                    /\ spawnPath' = kept
                    /\ ev' = e1
                    /\ UNCHANGED m_outputPath
               ELSE /\ procState' = [Replaced(old, procState) EXCEPT ![h] = "starting"]
                    /\ m_outputPath' = outputPath
                    /\ spawnPath' = [kept EXCEPT ![h] = outputPath]
                    /\ IF recordAsSudo
                       THEN LET sudoBinary == sudoUtil(config.onPath)
                                options == ElevatedOptions(sudoBinary, config.window,
                                               config.username, outputPath, perfOptions,
                                               recordOptions)
                            IN  /\ emitted' = <<recordingStarted(sudoBinary, options, h)>>
                                /\ arguments' = options
                       ELSE LET perfCommandList == PlainPerfCommand(outputPath, perfOptions,
                                                                    recordOptions)
                            IN  /\ emitted' = <<recordingStarted("perf", perfCommandList, h)>>
                                /\ arguments' = perfCommandList
                    /\ ev' = e1
            /\ termRequested' = Forget(termRequested, old, gone)
            /\ notified' = Forget(notified, old, gone)
            /\ written' = IF written = old /\ gone THEN 0 ELSE written
            /\ UNCHANGED <<config, m_userTerminated, inDeath, faulted>>

\* lines 183-193: record() on a list of process ids
RecordPids ==
    \E pids \in {<<>>, config.pids} :
        /\ Idle
        /\ IF pids = <<>>
           THEN /\ emitted' = <<recordingFailed("noProcess", 0)>>
                /\ ev' = [Ev("record", 0) EXCEPT !.target = "noPids"]
                /\ UNCHANGED <<config, m_perfRecordProcess, m_outputPath, m_userTerminated,
                               procState, killed, termRequested, written, inDeath,
                               notified, arguments, spawnPath, faulted>>
           ELSE \E outputPath \in OutputPaths :
                    startRecording(config.perfOptions, outputPath, config.recordAsSudo,
                                   <<"--pid", Join(pids, ",")>>,
                                   [Ev("record", 0) EXCEPT !.target = "pids"])

\* lines 195-221: record() on an executable to launch
RecordExe ==
    \E exePath \in ExeStates :
        LET why == ExeCheck(ResolveExe(exePath))
            e == [Ev("record", 0) EXCEPT !.target = exePath]
        IN  /\ Idle
            /\ IF why # "ok"
               THEN /\ emitted' = <<recordingFailed(why, 0)>>
                    /\ ev' = e
                    /\ UNCHANGED <<config, m_perfRecordProcess, m_outputPath, m_userTerminated,
                                   procState, killed, termRequested, written, inDeath,
                                   notified, arguments, spawnPath, faulted>>
               ELSE \E outputPath \in OutputPaths :
                        startRecording(config.perfOptions, outputPath,
                                       config.recordAsSudo,
                                       <<AbsoluteFilePath(exePath)>> \o config.exeOptions,
                                       e)

\* lines 232-238: stopRecording; terminate() signals a subprocess that is
\* starting or running and does nothing on any other QProcess
stopRecording ==
    /\ Idle
    /\ IF m_perfRecordProcess # 0
       THEN /\ m_userTerminated' = TRUE
            /\ IF Active(m_perfRecordProcess)
               THEN termRequested' = termRequested \cup {m_perfRecordProcess}
               ELSE UNCHANGED termRequested
       ELSE UNCHANGED <<m_userTerminated, termRequested>>
    /\ emitted' = <<>>
    /\ ev' = Ev("stop", m_perfRecordProcess)
    /\ UNCHANGED <<config, m_perfRecordProcess, m_outputPath, procState, killed, written,
                   inDeath, notified, arguments, spawnPath, faulted>>

\* what sendInput does on a null m_perfRecordProcess: Q_ASSERT aborts in a
\* build with assertions, in a build without them write() is called through
\* the null pointer
NullHandleFaults == {"assertion", "nullDereference"}

\* lines 240-244: sendInput; on an existing QProcess write() buffers the bytes
\* for a subprocess that is starting or running and drops them otherwise
sendInput ==
    /\ Idle
    /\ IF m_perfRecordProcess = 0
       THEN /\ faulted' \in NullHandleFaults
            /\ UNCHANGED written
       ELSE /\ written' = IF Active(m_perfRecordProcess)
                          THEN m_perfRecordProcess ELSE written
            /\ UNCHANGED faulted
    /\ emitted' = <<>>
    /\ ev' = Ev("sendInput", m_perfRecordProcess)
    /\ UNCHANGED <<config, m_perfRecordProcess, m_outputPath, m_userTerminated, procState,
                   killed, termRequested, inDeath, notified, arguments, spawnPath>>

\* lines 223-230: perfCommand(); ev.ret is the string it returns
perfCommand ==
    /\ Idle
    /\ emitted' = <<>>
    /\ ev' = [Ev("perfCommand", m_perfRecordProcess) EXCEPT
                 !.ret = CommandLine(m_perfRecordProcess, arguments)]
    /\ UNCHANGED <<config, m_perfRecordProcess, m_outputPath, m_userTerminated, procState,
                   killed, termRequested, written, inDeath, notified, arguments,
                   spawnPath, faulted>>

\* ------------------------------------------------------------------- Init
InitFrom(configs) ==
    /\ config \in configs
    /\ m_perfRecordProcess = 0
    /\ m_outputPath = 0
    /\ m_userTerminated = FALSE
    /\ procState = [h \in Handles |-> "none"]
    /\ killed = {}
    /\ termRequested = {}
    /\ written = 0
    /\ inDeath = NoDeath
    /\ notified = {}
    /\ arguments = <<>>
    /\ spawnPath = [h \in Handles |-> 0]
    /\ faulted = ""
    /\ emitted = <<>>
    /\ ev = NoEv

Init == InitFrom(FewConfigs)

\* the sessions that got a terminal notification, after an event of h emitted out
Notify(h, out) ==
    IF \E i \in 1..Len(out) : IsTerminal(out[i]) THEN notified \cup {h} ELSE notified

\* the started QProcess objects once h has ended or is deleted
SpawnPathAfter(h) == IF h \in killed THEN [spawnPath EXCEPT ![h] = 0] ELSE spawnPath

\* ------------------------------------------------- events of a subprocess
\* QProcess::started: no handler is connected, the QProcess reports Running
ProcessStarted(h) ==
    /\ Idle
    /\ procState[h] = "starting"
    /\ procState' = [procState EXCEPT ![h] = "running"]
    /\ emitted' = <<>>
    /\ ev' = Ev("started", h)
    /\ UNCHANGED <<config, m_perfRecordProcess, m_outputPath, m_userTerminated, killed,
                   termRequested, written, inDeath, notified, arguments, spawnPath,
                   faulted>>

\* lines 119-125 on errorOccurred(FailedToStart): no finished() follows
FailedToStart(h) ==
    /\ Idle
    /\ procState[h] = "starting"
    /\ procState' = [procState EXCEPT ![h] = Ended(h)]
    /\ killed' = killed \ {h}
    /\ emitted' = ErrorEmits(m_userTerminated, m_perfRecordProcess)
    /\ notified' = Forget(Notify(h, emitted'), h, h \in killed)
    /\ termRequested' = Forget(termRequested, h, h \in killed)
    /\ ev' = Ev("failedToStart", h)
    /\ spawnPath' = SpawnPathAfter(h)
    /\ UNCHANGED <<config, m_perfRecordProcess, m_outputPath, m_userTerminated, written,
                   inDeath, arguments, faulted>>

\* lines 119-125 on errorOccurred(WriteError): the subprocess keeps running
WriteError(h) ==
    /\ Idle
    /\ procState[h] = "running"
    /\ written = h
    /\ written' = 0
    /\ emitted' = ErrorEmits(m_userTerminated, m_perfRecordProcess)
    /\ notified' = Notify(h, emitted')
    /\ ev' = Ev("writeError", h)
    /\ UNCHANGED <<config, m_perfRecordProcess, m_outputPath, m_userTerminated, procState,
                   killed, termRequested, inDeath, arguments, spawnPath, faulted>>

\* lines 127-131: readyRead
ReadyRead(h) ==
    /\ Idle
    /\ procState[h] = "running"
    /\ emitted' = <<recordingOutput(m_perfRecordProcess)>>
    /\ ev' = Ev("readyRead", h)
    /\ UNCHANGED <<config, m_perfRecordProcess, m_outputPath, m_userTerminated, procState,
                   killed, termRequested, written, inDeath, notified, arguments,
                   spawnPath, faulted>>

\* lines 119-125 on errorOccurred(Crashed): the subprocess died on a signal,
\* SIGKILL when kill() was called on it; finished(signal, CrashExit) follows
ProcessCrashed(h) ==
    \E signal \in (IF h \in killed THEN {SIGKILL} ELSE CrashSignals) :
        /\ Idle
        /\ procState[h] = "running"
        /\ inDeath' = [h |-> h, code |-> signal]
        /\ emitted' = ErrorEmits(m_userTerminated, m_perfRecordProcess)
        /\ notified' = Notify(h, emitted')
        /\ ev' = [Ev("crashed", h) EXCEPT !.code = signal]
        /\ UNCHANGED <<config, m_perfRecordProcess, m_outputPath, m_userTerminated, procState,
                       killed, termRequested, written, arguments, spawnPath, faulted>>

\* lines 101-117: the finished handler, on finished(exitCode, exitStatus) of h;
\* ev.readable is the readability of the output file when ensureFileReadable
\* returned (FALSE when it was not called), ev.wasReadable its readability
\* when the method was called, ev.helperRun whether it ran the chown helper
finished(h, exitCode) ==
    \E file \in FileStates :
        /\ procState' = [procState EXCEPT ![h] = Ended(h)]
        /\ killed' = killed \ {h}
        /\ inDeath' = NoDeath
        /\ written' = IF written = h THEN 0 ELSE written
        /\ IF ExitIsSuccess(exitCode, m_userTerminated, file)
           THEN \E c \in EnsureCases :
                    LET ensured == ensureFileReadable(c.readable, sudoUtil(config.onPath),
                                                      config.username, c.chownWorks)
                    IN  /\ emitted' = FinishedEmits(exitCode, m_userTerminated, file,
                                                    m_outputPath, ensured.result)
                        /\ ev' = [Ev("finished", h) EXCEPT
                                     !.code = exitCode, !.file = file,
                                     !.readable = ensured.readableAfter,
                                     !.wasReadable = c.readable,
                                     !.helperRun = ensured.helperRun]
           ELSE /\ emitted' = FinishedEmits(exitCode, m_userTerminated, file,
                                            m_outputPath, FALSE)
                /\ ev' = [Ev("finished", h) EXCEPT !.code = exitCode, !.file = file]
        /\ notified' = Forget(Notify(h, emitted'), h, h \in killed)
        /\ termRequested' = Forget(termRequested, h, h \in killed)
        /\ m_userTerminated' = FALSE
        /\ spawnPath' = SpawnPathAfter(h)
        /\ UNCHANGED <<config, m_perfRecordProcess, m_outputPath, arguments, faulted>>

\* the subprocess returned from main: finished(exitCode, NormalExit); a
\* subprocess that got kill() ends on SIGKILL instead
ProcessExited(h) ==
    \E exitCode \in ExitCodes :
        /\ Idle
        /\ procState[h] = "running"
        /\ h \notin killed
        /\ finished(h, exitCode)

\* finished(signal, CrashExit), emitted right after errorOccurred(Crashed)
ProcessDied(h) ==
    /\ inDeath.h = h
    /\ finished(h, inDeath.code)

\* line 80: the deferred deletion of a replaced QProcess whose subprocess has
\* not been seen to end; after it the object emits nothing
DeleteLater(h) ==
    /\ Idle
    /\ h \in killed
    /\ killed' = killed \ {h}
    /\ procState' = [procState EXCEPT ![h] = "deleted"]
    /\ written' = IF written = h THEN 0 ELSE written
    /\ termRequested' = termRequested \ {h}
    /\ notified' = notified \ {h}
    /\ emitted' = <<>>
    /\ ev' = Ev("deleted", h)
    /\ spawnPath' = SpawnPathAfter(h)
    /\ UNCHANGED <<config, m_perfRecordProcess, m_outputPath, m_userTerminated, inDeath,
                   arguments, faulted>>

Next ==
    \/ RecordPids
    \/ RecordExe
    \/ stopRecording
    \/ sendInput
    \/ perfCommand
    \/ \E h \in Handles : ProcessStarted(h)
    \/ \E h \in Handles : FailedToStart(h)
    \/ \E h \in Handles : WriteError(h)
    \/ \E h \in Handles : ReadyRead(h)
    \/ \E h \in Handles : ProcessCrashed(h)
    \/ \E h \in Handles : ProcessExited(h)
    \/ \E h \in Handles : ProcessDied(h)
    \/ \E h \in Handles : DeleteLater(h)

Spec == Init /\ [][Next]_vars

\* the calls and the exits of one recording after another, over every input
InitAll == InitFrom(AllConfigs)

NextCalls ==
    \/ RecordPids
    \/ RecordExe
    \/ perfCommand
    \/ \E h \in Handles : ProcessStarted(h)
    \/ \E h \in Handles : ProcessExited(h)

CallSpec == InitAll /\ [][NextCalls]_vars

\* ---------------------------------------------------------------- claims
HasTerminal(out) == \E i \in 1..Len(out) : IsTerminal(out[i])

\* an errorOccurred event was the last operation
ErrorOps == {"failedToStart", "writeError", "crashed"}

\* the exit seen by the last finished event, as the claims classify it
ClaimedSuccess ==
    /\ ev.file # "missing"
    /\ \/ ev.code = 0
       \/ (ev.code = SIGTERM /\ ev.ut)
       \/ ev.file = "data"

\* C1: whenever the finished handler has run, it reported success (finished or
\* the readability failure that replaces it) exactly when the output file
\* exists and the exit code is 0, or is SIGTERM with the user-terminated flag
\* set, or the file is not empty; in every other case it emitted one failure
\* carrying the exit code.
C1_ExitClassification ==
    ev.op = "finished" =>
        IF ClaimedSuccess
        THEN emitted \in {<<recordingFinished(m_outputPath)>>, <<recordingFailed("unreadable", 0)>>}
        ELSE emitted = <<recordingFailed("errorCode", ev.code)>>

\* C1 witness: SIGTERM exit, flag set, empty existing file, reported finished
C1_Witness ==
    /\ ev.op = "finished" /\ ev.code = SIGTERM /\ ev.ut /\ ev.file = "empty"
    /\ emitted = <<recordingFinished(m_outputPath)>>

\* C2: a session that already has a terminal notification gets no second one
\* on a later event of its subprocess.
C2_AtMostOneTerminal ==
    [][\A h \in Handles :
          (h \in notified /\ ev'.h = h /\ ev'.op \in ErrorOps \cup {"finished"})
              => ~HasTerminal(emitted')]_vars

\* C3: once the subprocess of a session has failed to start or has exited and
\* the event was handled, the session has its terminal notification.
C3_EndedSessionNotified ==
    \A h \in Handles : procState[h] = "notRunning" => h \in notified

\* the reason the claims give for a rejected target, or "ok"
ClaimedTargetReason ==
    CASE ev.target = "noPids" -> "noProcess"
      [] ev.target = "missing" -> "exeMissing"
      [] ev.target \in {"dir", "lockedDir"} -> "exeNotFile"
      [] ev.target = "plainFile" -> "exeNotExecutable"
      [] OTHER -> "ok"

\* the reason the claims give for a rejected output folder, or "ok"
ClaimedFolderReason ==
    CASE ev.folder = "missing" -> "folderMissing"
      [] ev.folder \in {"file", "readonlyFile"} -> "notFolder"
      [] ev.folder = "readonlyDir" -> "folderNotWritable"
      [] OTHER -> "ok"

\* C4: a record() call whose target or output folder fails validation emits
\* exactly one failure, with the reason of the first failing check (target
\* checks before folder checks), no recordingStarted, and starts no subprocess.
C4_ValidationFailure ==
    ev.op = "record" =>
        /\ ClaimedTargetReason # "ok" =>
               /\ emitted = <<recordingFailed(ClaimedTargetReason, 0)>>
               /\ ev.h = 0
        /\ (ClaimedTargetReason = "ok" /\ ClaimedFolderReason # "ok") =>
               /\ emitted = <<recordingFailed(ClaimedFolderReason, 0)>>
               /\ procState[ev.h] = "unstarted"

\* C4 witness: a folder path that is a read-only file is reported as no folder
C4_Witness ==
    /\ ev.op = "record" /\ ev.target = "onSearchPath" /\ ev.folder = "readonlyFile"
    /\ emitted = <<recordingFailed("notFolder", 0)>>

\* C5: after stopRecording() on a running session, the Crashed error of that
\* session emits nothing, and its exit with SIGTERM on an existing output file
\* (empty or not) is classified as success: it emits recordingFinished if the
\* file is readable and never the failure with the exit code.
C5_StopThenSigterm ==
    (ev.h # 0 /\ ev.h = m_perfRecordProcess /\ ev.h \in termRequested
          /\ ev.code = SIGTERM) =>
        /\ ev.op = "crashed" => emitted = <<>>
        /\ (ev.op = "finished" /\ ev.file # "missing") =>
               emitted = IF ev.readable THEN <<recordingFinished(m_outputPath)>>
                         ELSE <<recordingFailed("unreadable", 0)>>

\* C6: an error event of the current session emits the failure with the error
\* string exactly when stopRecording() was not called on that session.
C6_ErrorSurfaced ==
    (ev.op \in ErrorOps /\ ev.h = m_perfRecordProcess) =>
        (emitted = <<recordingFailed("osError", ev.h)>> <=> ev.h \notin termRequested)

\* C7: right after a record() call has spawned a subprocess, the
\* user-terminated flag is false.
C7_FlagClearAtSpawn ==
    (ev.op = "record" /\ ev.h # 0 /\ procState[ev.h] = "starting")
        => ~m_userTerminated

\* the subprocesses that run: forked, not seen to end, and not killed
LiveProcesses == {h \in Handles : Active(h) /\ h \notin killed}

\* C8: at most one subprocess runs at any time.
C8_OneLiveSubprocess == Cardinality(LiveProcesses) <= 1

\* C8 witness: a new subprocess runs while the killed one is yet to be deleted
C8_Witness ==
    /\ Active(m_perfRecordProcess)
    /\ \E h \in killed : procState[h] = "running"

\* C9: stopRecording() emits nothing and leaves the handle, the output path and
\* every QProcess as they are; with an active subprocess it sets the flag and
\* requests terminate (not kill) of it; with no active subprocess it changes
\* nothing at all; a second call right after a first changes nothing.
C9_StopEffect ==
    [][ev'.op = "stop" =>
          /\ emitted' = <<>>
          /\ UNCHANGED <<config, m_perfRecordProcess, m_outputPath, procState, killed>>
          /\ Active(m_perfRecordProcess) =>
                 /\ m_userTerminated'
                 /\ termRequested' = termRequested \cup {m_perfRecordProcess}
          /\ ~Active(m_perfRecordProcess) =>
                 UNCHANGED <<m_userTerminated, termRequested>>
          /\ ev.op = "stop" => UNCHANGED <<m_userTerminated, termRequested>>]_vars

\* C10: an exit classified as success emits exactly one notification:
\* recordingFinished with the output path if the file is readable when
\* ensureFileReadable returns, else the readability failure.
C10_FinishedOnlyIfReadable ==
    (ev.op = "finished" /\ ClaimedSuccess) =>
        emitted = IF ev.readable THEN <<recordingFinished(m_outputPath)>>
                  ELSE <<recordingFailed("unreadable", 0)>>

\* C10 witness: classified success on a file that stays unreadable
C10_Witness ==
    /\ ev.op = "finished" /\ ClaimedSuccess /\ ~ev.readable
    /\ emitted = <<recordingFailed("unreadable", 0)>>

\* the chown helper can be run: the file is not readable, a helper binary was
\* found and the user name is known
HelperNeededAndPossible ==
    ~ev.wasReadable /\ config.onPath # {} /\ config.username # ""

\* C11: when the finished handler has called ensureFileReadable, the chown
\* helper was run exactly when the file was not readable and both a helper
\* binary and the user name were available; on a readable file the result is
\* true, on an unreadable file with the helper or the user name missing it is
\* false, and after the helper ran it is the readability observed then.
C11_HelperIffNeeded ==
    (ev.op = "finished" /\ ClaimedSuccess) =>
        /\ ev.helperRun <=> HelperNeededAndPossible
        /\ ev.wasReadable => emitted = <<recordingFinished(m_outputPath)>>
        /\ (~ev.wasReadable /\ ~HelperNeededAndPossible) =>
               emitted = <<recordingFailed("unreadable", 0)>>
        /\ HelperNeededAndPossible =>
               (emitted = <<recordingFinished(m_outputPath)>> <=> ev.readable)

\* C11 witness: an unreadable file, the helper found, the user name unknown:
\* no helper run and the readability failure
C11_Witness ==
    /\ ev.op = "finished" /\ ClaimedSuccess
    /\ ~ev.wasReadable /\ config.onPath = {"gksu"} /\ config.username = ""
    /\ ~ev.helperRun /\ emitted = <<recordingFailed("unreadable", 0)>>

\* the helper flags the claims give: -u root, and for kdesu -t --attach <window>
ClaimedHelperFlags ==
    <<"-u", "root">> \o
    (IF "kdesu" \in config.onPath THEN <<"-t", "--attach", config.window>> ELSE <<>>)

\* the wrapper that drops back to the invoking user
ClaimedRunuser == <<"--", "runuser", "-u", config.username, "--">>

\* the argument list the claims give for a command with these target arguments
ClaimedArgumentsFor(targetArguments) ==
    IF config.recordAsSudo
    THEN ClaimedHelperFlags
             \o <<"--", "perf", "record", "-o", PathName(m_outputPath)>>
             \o config.perfOptions \o ClaimedRunuser \o targetArguments
    ELSE <<"record", "-o", PathName(m_outputPath)>>
             \o config.perfOptions \o targetArguments

\* the argument list the claims give for the command of the last record() call
ClaimedArguments == ClaimedArgumentsFor(ev.recordOptions)

\* C12: a record() call that starts a subprocess announces and starts exactly
\* the claimed command: elevated, the helper binary with the helper flags, --,
\* perf record -o <output>, the perf options, the runuser wrapper and the
\* target arguments, every helper flag before the first "--" and the target
\* arguments the suffix after the wrapper; not elevated, the binary perf with
\* record -o <output>, the perf options and the target arguments.
C12_CommandAssembly ==
    (ev.op = "record" /\ ev.h # 0 /\ procState[ev.h] = "starting") =>
        /\ emitted = <<recordingStarted(IF config.recordAsSudo
                                        THEN sudoUtil(config.onPath) ELSE "perf",
                                        ClaimedArguments, ev.h)>>
        /\ arguments = ClaimedArguments
        /\ config.recordAsSudo =>
               LET flags == Len(ClaimedHelperFlags)
                   targetAt == Len(arguments) - Len(ev.recordOptions)
               IN  /\ \A i \in 1..flags : arguments[i] # "--"
                   /\ arguments[flags + 1] = "--"
                   /\ SubSeq(arguments, targetAt + 1, Len(arguments)) = ev.recordOptions
                   /\ SubSeq(arguments, targetAt - 4, targetAt) = ClaimedRunuser

\* C12 witness: an elevated recording of two process ids through gksu
C12_Witness ==
    /\ ev.op = "record" /\ config.recordAsSudo /\ config.onPath = {"gksu"}
    /\ Len(emitted) = 1 /\ emitted[1].sig = "recordingStarted"
    /\ emitted[1].kind = "/usr/bin/gksu"
    /\ emitted[1].args = <<"-u", "root", "--", "perf", "record", "-o",
                           "/out/perf.data.1", "--call-graph", "dwarf", "--",
                           "runuser", "-u", "user", "--", "--pid", "7,8">>

\* the members of PerfRecord and the QProcess objects
ProgramState ==
    <<m_perfRecordProcess, m_outputPath, m_userTerminated, procState, killed,
      termRequested, written, arguments, faulted>>

\* a recording command has been configured: a start has passed validation
\* (m_outputPath is assigned there and nowhere else)
Configured == m_outputPath # 0

\* the descriptions of the command last configured: perf and its arguments,
\* for the process ids or for the executable of this run
ClaimedDescriptions ==
    {"perf " \o Join(ClaimedArgumentsFor(target), " ") :
        target \in {<<"--pid", Join(config.pids, ",")>>,
                    <<AbsoluteFilePath("execFile")>> \o config.exeOptions}}

\* C13: perfCommand() changes no state and emits nothing; it returns the empty
\* string while no recording command has been configured (also after a start
\* that failed folder validation), and a description of the command last
\* configured once there is one.
C13_PerfCommandResult ==
    [][ev'.op = "perfCommand" =>
          /\ emitted' = <<>>
          /\ UNCHANGED ProgramState
          /\ IF Configured THEN ev'.ret \in ClaimedDescriptions ELSE ev'.ret = ""]_vars

\* C14: sendInput() with no active subprocess (none started, the last start
\* failed validation, or the subprocess has ended) faults instead of writing;
\* with an active subprocess it writes and changes nothing else.
C14_SendInputNeedsActive ==
    [][ev'.op = "sendInput" =>
          IF Active(m_perfRecordProcess)
          THEN /\ written' = m_perfRecordProcess
               /\ emitted' = <<>>
               /\ UNCHANGED <<m_perfRecordProcess, m_outputPath, m_userTerminated,
                              procState, killed, termRequested, arguments, faulted>>
          ELSE faulted' \in NullHandleFaults /\ UNCHANGED written]_vars

\* the notifications of one signal in a list
Count(out, sig) == Cardinality({i \in 1..Len(out) : out[i].sig = sig})

\* C15: a record() call that passes validation emits recordingStarted exactly
\* once, with the start of the subprocess, and nothing else emits it; output
\* and terminal notifications come only from events of a started subprocess;
\* and an output event of a session that already has its terminal notification
\* emits no recordingOutput.
C15_StartedThenOutputThenEnd ==
    [][/\ (ev'.op = "record" /\ ev'.h # 0 /\ procState'[ev'.h] = "starting")
            => (Len(emitted') = 1 /\ Count(emitted', "recordingStarted") = 1)
       /\ Count(emitted', "recordingStarted") > 0
            => (ev'.op = "record" /\ procState[ev'.h] = "none"
                  /\ procState'[ev'.h] = "starting")
       /\ (ev'.op \in ErrorOps \cup {"finished", "readyRead"}) => Active(ev'.h)
       /\ (ev'.op = "readyRead" /\ ev'.h \in notified)
            => Count(emitted', "recordingOutput") = 0]_vars

\* the events of a subprocess that the connected handlers receive
EventOps == ErrorOps \cup {"finished", "readyRead"}

\* C16: an event of a subprocess whose handle a later start has replaced is not
\* handled: it emits nothing and leaves the flag and the output path alone.
C16_OldEventsIgnored ==
    [][(ev'.op \in EventOps /\ ev'.h # m_perfRecordProcess) =>
          /\ emitted' = <<>>
          /\ UNCHANGED <<m_userTerminated, m_outputPath>>]_vars

\* C17: the previous subprocess is killed and the handle replaced only by a
\* record() call that passes all validation; a call that fails validation of
\* its target or of the output folder leaves the subprocess, the handle, the
\* output path and the flag as they are.
C17_FailedStartKeepsSession ==
    [][/\ (ev'.op = "record" /\ HasTerminal(emitted'))
            => UNCHANGED <<m_perfRecordProcess, m_outputPath, m_userTerminated,
                           procState, killed>>
       /\ (m_perfRecordProcess' # m_perfRecordProcess \/ killed' \ killed # {})
            => (ev'.op = "record" /\ Count(emitted', "recordingStarted") = 1)]_vars

\* C18: the path the finished handler classifies against and reports is the
\* output path of the call that started that subprocess; the stored path
\* changes only in a record() call that passes validation, and while the
\* current subprocess is active it is the path that subprocess was started with.
C18_PathOfOwnSession ==
    [][/\ ev'.op = "finished" =>
             /\ m_outputPath = spawnPath[ev'.h]
             /\ \A i \in 1..Len(emitted') :
                    emitted'[i].sig = "recordingFinished"
                        => emitted'[i].val = spawnPath[ev'.h]
       /\ m_outputPath' # m_outputPath
             => (ev'.op = "record" /\ Count(emitted', "recordingStarted") = 1)
       /\ Active(m_perfRecordProcess)
             => m_outputPath = spawnPath[m_perfRecordProcess]]_vars

====
